---- MODULE Spec2Model ----
(***************************************************************************)
(* Model of src/simulation.py: the Hangprinter auto-calibration driver.    *)
(*                                                                         *)
(* Numbers.  The program computes in IEEE doubles.  A double is modelled   *)
(* as a record [n, d]: the exact rational n/d in lowest terms with d > 0,  *)
(* or NaN, written 0/0.  Rounding is not modelled; the order relations of  *)
(* doubles (every comparison with NaN is false) are.                       *)
(*                                                                         *)
(* Vectors.  A numpy array or Python list is a sequence; the source's      *)
(* 0-based index i is position i + 1 of the sequence.                      *)
(*                                                                         *)
(* Libraries.  scipy.optimize.minimize and the mystic solvers are outside  *)
(* the repository.  A bounded solver is modelled by its contract: it       *)
(* evaluates the cost function at least once and returns a point of the    *)
(* box [lb, ub] it was given, drawn here from the named points of BoxPoint.*)
(* The value of the L2 cost at a vector needs square roots; it is an       *)
(* input of the model, drawn from CostValues at every evaluation.          *)
(***************************************************************************)
EXTENDS Integers, Sequences, FiniteSets, TLC

----------------------------------------------------------------------------
(* Arithmetic on the modelled doubles *)

Abs(i) == IF i < 0 THEN -i ELSE i

RECURSIVE GCD(_, _)
GCD(a, b) == IF b = 0 THEN a ELSE GCD(b, a % b)

\* the double n/d, reduced; d # 0
Rat(n, d) ==
    LET g == GCD(Abs(n), Abs(d))
        s == IF d < 0 THEN -1 ELSE 1
    IN  [n |-> (s * n) \div g, d |-> (s * d) \div g]

NaN == [n |-> 0, d |-> 0]

IsNaN(a) == a.d = 0

RMul(a, b) == IF IsNaN(a) \/ IsNaN(b) THEN NaN ELSE Rat(a.n * b.n, a.d * b.d)

RDiv(a, b) == IF IsNaN(a) \/ IsNaN(b) \/ b.n = 0 THEN NaN ELSE Rat(a.n * b.d, a.d * b.n)

RAdd(a, b) == IF IsNaN(a) \/ IsNaN(b) THEN NaN ELSE Rat(a.n * b.d + b.n * a.d, a.d * b.d)

RSub(a, b) == IF IsNaN(a) \/ IsNaN(b) THEN NaN ELSE Rat(a.n * b.d - b.n * a.d, a.d * b.d)

RNeg(a) == IF IsNaN(a) THEN NaN ELSE [n |-> -a.n, d |-> a.d]

\* a < b on doubles: false as soon as one side is NaN
RLt(a, b) == ~IsNaN(a) /\ ~IsNaN(b) /\ a.n * b.d < b.n * a.d

\* a <= b on doubles
RLe(a, b) == ~IsNaN(a) /\ ~IsNaN(b) /\ a.n * b.d <= b.n * a.d

\* a != 0 on doubles (NaN is truthy)
RTruthy(a) == IsNaN(a) \/ a.n # 0

Zero == Rat(0, 1)

----------------------------------------------------------------------------
(* Python sequence helpers *)

Min(a, b) == IF a < b THEN a ELSE b
Max(a, b) == IF a < b THEN b ELSE a

\* a slice bound of Python, normalised against the length
PyIdx(i, len) == IF i < 0 THEN Max(len + i, 0) ELSE Min(i, len)

\* sol[a:b] *= k   (a, b are Python slice bounds, negative ones count from the end)
MulSlice(sol, a, b, k) ==
    LET lo == PyIdx(a, Len(sol))
        hi == PyIdx(b, Len(sol))
    IN  [i \in 1..Len(sol) |-> IF lo < i /\ i <= hi THEN RMul(sol[i], k) ELSE sol[i]]

\* sol[a] *= k   (a is a Python index)
MulAt(sol, a, k) ==
    LET p == IF a < 0 THEN Len(sol) + a ELSE a
    IN  [i \in 1..Len(sol) |-> IF i = p + 1 THEN RMul(sol[i], k) ELSE sol[i]]

\* [x] * n for a Python list of one element list x repeated n times (n <= 0 gives [])
RECURSIVE Repeat(_, _)
Repeat(x, n) == IF n <= 0 THEN << >> ELSE x \o Repeat(x, n - 1)

\* l with l[i] = v (0-based i)
SetAt(l, i, v) == [l EXCEPT ![i + 1] = v]

\* l[i] (0-based i)
At(l, i) == l[i + 1]

----------------------------------------------------------------------------
(* Module constants of simulation.py *)

params_anch == 9
params_buildup == 5
A_bx == 2
A_cx == 5

(* Constants of solve *)
anch_scale == Rat(14, 1)
pos_scale == Rat(4, 1)
sbf_scale == Rat(1, 100)
sr_scale == Rat(1, 200)
l_long == Rat(4000, 1)
l_short == Rat(1700, 1)
data_z_min == Rat(-50, 1)

----------------------------------------------------------------------------
(* Parameter codec *)

\* anchorsvec2matrix: rows A, B, C, D; columns X, Y, Z
anchorsvec2matrix(anchorsvec) ==
    << << Zero, At(anchorsvec, 0), At(anchorsvec, 1) >>,
       << At(anchorsvec, 2), At(anchorsvec, 3), At(anchorsvec, 4) >>,
       << At(anchorsvec, 5), At(anchorsvec, 6), At(anchorsvec, 7) >>,
       << Zero, Zero, At(anchorsvec, 8) >> >>

\* anchorsmatrix2vec
anchorsmatrix2vec(a) ==
    << a[1][2], a[1][3], a[2][1], a[2][2], a[2][3], a[3][1], a[3][2], a[3][3], a[4][3] >>

\* np.zeros(n) as a sequence
zeros(n) == [i \in 1..Max(n, 0) |-> Zero]

\* np.reshape(v, (rows, 3))
posvec2matrix(v, rows) == [r \in 1..rows |-> << v[3 * (r - 1) + 1], v[3 * (r - 1) + 2], v[3 * (r - 1) + 3] >>]

\* scale_back_solution with the position slice left open at the end
scale_back_solution_mut(sol) ==
    LET s1 == MulSlice(sol, 0, params_anch, anch_scale)
        s2 == MulSlice(s1, params_anch, Len(s1), pos_scale)
        s3 == MulAt(s2, -params_buildup, sbf_scale)
        s4 == MulSlice(s3, -params_buildup + 1, Len(s3), sr_scale)
    IN  s4

\* solve.scale_back_solution: four in-place slice multiplications, in source order
scale_back_solution(sol) ==
    LET s1 == MulSlice(sol, 0, params_anch, anch_scale)
        s2 == MulSlice(s1, params_anch, -params_buildup, pos_scale)
        s3 == MulAt(s2, -params_buildup, sbf_scale)
        s4 == MulSlice(s3, -params_buildup + 1, Len(s3), sr_scale)
    IN  s4

----------------------------------------------------------------------------
(* Bounds of solve *)

\* lb_list with position bounds for the known positions too
lb_list_mut(n_u, n_ux) ==
    << RDiv(RNeg(l_long), anch_scale),
       RDiv(Rat(-300, 1), anch_scale),
       RDiv(Rat(300, 1), anch_scale),
       RDiv(Rat(300, 1), anch_scale),
       RDiv(Rat(-300, 1), anch_scale),
       RDiv(RNeg(l_long), anch_scale),
       RDiv(Rat(300, 1), anch_scale),
       RDiv(Rat(-300, 1), anch_scale),
       RDiv(Rat(1000, 1), anch_scale) >>
    \o Repeat(<< RDiv(RNeg(l_short), pos_scale), RDiv(RNeg(l_short), pos_scale),
                 RDiv(data_z_min, pos_scale) >>, n_u)
    \o << RDiv(Rat(5, 100000), sbf_scale), RDiv(Rat(646, 10), sr_scale),
          RDiv(Rat(646, 10), sr_scale), RDiv(Rat(646, 10), sr_scale),
          RDiv(Rat(646, 10), sr_scale) >>

\* the list lb as first written (lines 459-473)
lb_list(n_u, n_ux) ==
    << RDiv(RNeg(l_long), anch_scale),
       RDiv(Rat(-300, 1), anch_scale),
       RDiv(Rat(300, 1), anch_scale),
       RDiv(Rat(300, 1), anch_scale),
       RDiv(Rat(-300, 1), anch_scale),
       RDiv(RNeg(l_long), anch_scale),
       RDiv(Rat(300, 1), anch_scale),
       RDiv(Rat(-300, 1), anch_scale),
       RDiv(Rat(1000, 1), anch_scale) >>
    \o Repeat(<< RDiv(RNeg(l_short), pos_scale), RDiv(RNeg(l_short), pos_scale),
                 RDiv(data_z_min, pos_scale) >>, n_u - n_ux)
    \o << RDiv(Rat(5, 100000), sbf_scale), RDiv(Rat(646, 10), sr_scale),
          RDiv(Rat(646, 10), sr_scale), RDiv(Rat(646, 10), sr_scale),
          RDiv(Rat(646, 10), sr_scale) >>

\* the list ub as first written (lines 474-488)
ub_list(n_u, n_ux) ==
    << RDiv(Rat(500, 1), anch_scale),
       RDiv(Rat(200, 1), anch_scale),
       RDiv(l_long, anch_scale),
       RDiv(l_long, anch_scale),
       RDiv(Rat(200, 1), anch_scale),
       RDiv(Rat(-300, 1), anch_scale),
       RDiv(l_long, anch_scale),
       RDiv(Rat(200, 1), anch_scale),
       RDiv(l_long, anch_scale) >>
    \o Repeat(<< RDiv(l_short, pos_scale), RDiv(l_short, pos_scale),
                 RDiv(RMul(Rat(2, 1), l_short), pos_scale) >>, n_u - n_ux)
    \o << RDiv(Rat(1, 100), sbf_scale), RDiv(Rat(67, 1), sr_scale),
          RDiv(Rat(67, 1), sr_scale), RDiv(Rat(67, 1), sr_scale),
          RDiv(Rat(67, 1), sr_scale) >>

\* relax_bx with the threshold off by one
relax_bx_mut(l, n_ux) == IF n_ux > 1 THEN SetAt(l, A_bx, RNeg(l_long)) ELSE l

\* lines 554-556: with more than two known positions the lower bound of A_bx is relaxed
relax_bx(l, n_ux) == IF n_ux > 2 THEN SetAt(l, A_bx, RNeg(l_long)) ELSE l

\* swap_bx_cx with tmp lost: A_cx keeps its own value
swap_bx_cx_mut(l, cx) == IF cx THEN SetAt(SetAt(l, A_bx, At(l, A_cx)), A_cx, At(l, A_cx)) ELSE l

\* lines 560-566: exchange entries A_bx and A_cx of a bound list
swap_bx_cx(l, cx) == IF cx THEN SetAt(SetAt(l, A_bx, At(l, A_cx)), A_cx, At(l, A_bx)) ELSE l

\* lb and ub as the strategies see them
solve_lb(n_u, n_ux, cx) == swap_bx_cx(relax_bx(lb_list(n_u, n_ux), n_ux), cx)
solve_ub(n_u, n_ux, cx) == swap_bx_cx(ub_list(n_u, n_ux), cx)

\* x_guess (lines 568-576): zero anchors, zero positions, nominal spool parameters
solve_x_guess(n_u, n_ux) ==
    anchorsmatrix2vec(<< zeros(3), zeros(3), zeros(3), zeros(3) >>)
    \o zeros(3 * (n_u - n_ux))
    \o << RDiv(Rat(6, 1000), sbf_scale), RDiv(Rat(645, 10), sr_scale),
          RDiv(Rat(645, 10), sr_scale), RDiv(Rat(645, 10), sr_scale),
          RDiv(Rat(645, 10), sr_scale) >>

\* random_guess (line 767) for one value r of np.random.rand() used for every entry
random_guess(l, h, r) == [j \in 1..Len(l) |-> RAdd(l[j], RMul(RSub(h[j], l[j]), r))]

\* solve.costx (lines 424-443) raises ValueError when the shapes do not fit:
\* pos has u - ux rows; pos[0:ux] = xyz_of_samp needs ux <= u - ux or ux = 1,
\* and the (u - ux, 4) model deltas broadcast against the (u, 4) samples only
\* when u - ux = u, u - ux = 1 or u = 1
costx_raises(n_u, n_ux) ==
    \/ n_ux # 0 /\ ~(n_ux <= n_u - n_ux \/ n_ux = 1)
    \/ ~(n_u - n_ux = n_u \/ n_u - n_ux = 1 \/ n_u = 1)

----------------------------------------------------------------------------
(* Bounds of the model and sample inputs *)

\* number of motor samples explored: 1..MaxU, and params_anch (enough data)
MaxU == 3

UValues == 1..MaxU \cup {params_anch}

\* number of known positions given with -x
UxValues == 0..(MaxU + 1)

\* range(30) of the random-restart loop (line 764)
MaxTrials == 30

\* starting value of best_cost (line 760): 999999.9
best_cost_start == Rat(9999999, 10)

\* class default of candidate.cost (line 1113): 9999.9
candidate_cost_default == Rat(99999, 10)

\* values of computeCost seen by the model: two ordinary values and NaN
CostValues == {Rat(1, 1), Rat(2, 1), NaN}

\* values of sol.fun seen by the model: two ordinary values and one that is not
\* below the starting value of best_cost
FunValues == {Rat(1, 1), Rat(2, 1), Rat(1000000, 1)}

\* the names solve dispatches on, in the order of all-strategies mode (lines 1151-1157)
StrategyNames ==
    << "L-BFGS-B", "PowellDirectionalSolver", "SLSQP", "differentialEvolutionSolver", "BuckShot" >>

Supported == {StrategyNames[j] : j \in 1..Len(StrategyNames)}

\* values of -m / --method tried
MethodArgs == Supported \cup {"0", "1", "2", "3", "4", "5", "all", "NelderMead"}

\* lines 930-941: digits are shorthands
method_of_arg(a) ==
    CASE a = "0" -> "L-BFGS-B"
      [] a = "1" -> "PowellDirectionalSolver"
      [] a = "2" -> "SLSQP"
      [] a = "3" -> "differentialEvolutionSolver"
      [] a = "4" -> "BuckShot"
      [] a = "5" -> "all"
      [] OTHER -> a

\* values of np.random.rand() tried, in [0, 1)
RandValues == {Rat(0, 1), Rat(1, 2)}

\* points of the box a bounded solver may return
PointNames == {"lb", "ub"}
BoxPoint(p, l, h) == IF p = "lb" THEN l ELSE h

\* the known positions given with -x: row j is (10j+1, 10j+2, 10j+3)
xyz_rows(n_ux) == [j \in 1..n_ux |-> << Rat(10 * j + 1, 1), Rat(10 * j + 2, 1), Rat(10 * j + 3, 1) >>]

\* a motor reading of the model: 32130/11 degrees (about 2921), in or out
MotorStep == Rat(32130, 11)

\* rows of motor samples by the lines that were wound in (negative reading):
\* A; B and C; A and B; A and C; D
SampleRowSeq ==
    << << RNeg(MotorStep), MotorStep, MotorStep, MotorStep >>,
       << MotorStep, RNeg(MotorStep), RNeg(MotorStep), MotorStep >>,
       << RNeg(MotorStep), RNeg(MotorStep), MotorStep, MotorStep >>,
       << RNeg(MotorStep), MotorStep, RNeg(MotorStep), MotorStep >>,
       << MotorStep, MotorStep, MotorStep, RNeg(MotorStep) >> >>

SampleRows == {SampleRowSeq[j] : j \in 1..Len(SampleRowSeq)}

\* the n motor samples of a run of __main__
default_samples(n) == [j \in 1..n |-> SampleRowSeq[((j - 1) % Len(SampleRowSeq)) + 1]]

----------------------------------------------------------------------------
(* Candidate evaluator *)

\* np.array(solution).any()
any(solution) == \E j \in 1..Len(solution) : RTruthy(solution[j])

\* solution[a:b] with Python slice bounds
PySlice(l, a, b) == SubSeq(l, PyIdx(a, Len(l)) + 1, PyIdx(b, Len(l)))

\* candidate that keeps the class default of cost
candidate_mut_cost(name, solution, c, n_u, n_ux) ==
    IF any(solution)
    THEN [name |-> name, solution |-> solution, cost |-> candidate_cost_default,
          anch |-> anchorsvec2matrix(PySlice(solution, 0, params_anch)),
          spool_buildup_factor |-> At(solution, Len(solution) - params_buildup),
          spool_r |-> PySlice(solution, -params_buildup + 1, Len(solution)),
          pos |-> IF n_ux # 0
                  THEN xyz_rows(n_ux) \o posvec2matrix(PySlice(solution, params_anch, -params_buildup), n_u - n_ux)
                  ELSE posvec2matrix(PySlice(solution, params_anch, -params_buildup), n_u)]
    ELSE [name |-> name, solution |-> solution, cost |-> candidate_cost_default,
          anch |-> << zeros(3), zeros(3), zeros(3), zeros(3) >>,
          spool_buildup_factor |-> Zero,
          spool_r |-> << >>,
          pos |-> zeros(3 * (n_u - n_ux))]

\* candidate that stacks the free positions above the known ones
candidate_mut_pos(name, solution, c, n_u, n_ux) ==
    IF any(solution)
    THEN [name |-> name, solution |-> solution, cost |-> c,
          anch |-> anchorsvec2matrix(PySlice(solution, 0, params_anch)),
          spool_buildup_factor |-> At(solution, Len(solution) - params_buildup),
          spool_r |-> PySlice(solution, -params_buildup + 1, Len(solution)),
          pos |-> IF n_ux # 0
                  THEN posvec2matrix(PySlice(solution, params_anch, -params_buildup), n_u - n_ux) \o xyz_rows(n_ux)
                  ELSE posvec2matrix(PySlice(solution, params_anch, -params_buildup), n_u)]
    ELSE [name |-> name, solution |-> solution, cost |-> candidate_cost_default,
          anch |-> << zeros(3), zeros(3), zeros(3), zeros(3) >>,
          spool_buildup_factor |-> Zero,
          spool_r |-> << >>,
          pos |-> zeros(3 * (n_u - n_ux))]

\* candidate.__init__ (lines 1116-1139); c is the value computeCost returns
candidate(name, solution, c, n_u, n_ux) ==
    IF any(solution)
    THEN [name |-> name, solution |-> solution, cost |-> c,
          anch |-> anchorsvec2matrix(PySlice(solution, 0, params_anch)),
          spool_buildup_factor |-> At(solution, Len(solution) - params_buildup),
          spool_r |-> PySlice(solution, -params_buildup + 1, Len(solution)),
          pos |-> IF n_ux # 0
                  THEN xyz_rows(n_ux) \o posvec2matrix(PySlice(solution, params_anch, -params_buildup), n_u - n_ux)
                  ELSE posvec2matrix(PySlice(solution, params_anch, -params_buildup), n_u)]
    ELSE [name |-> name, solution |-> solution, cost |-> candidate_cost_default,
          anch |-> << zeros(3), zeros(3), zeros(3), zeros(3) >>,
          spool_buildup_factor |-> Zero,
          spool_r |-> << >>,
          pos |-> zeros(3 * (n_u - n_ux))]

(* sorted(cands, key=lambda cand: cand.cost): CPython's list sort for fewer    *)
(* than 64 elements: the leading run is found (and reversed when strictly      *)
(* descending), the rest is inserted by binary insertion; only < is used.      *)
IsLT(a, b) == RLt(a.cost, b.cost)

RECURSIVE count_run(_, _, _)
count_run(s, k, desc) ==
    IF k > Len(s) THEN Len(s)
    ELSE IF IsLT(s[k], s[k - 1]) = desc THEN count_run(s, k + 1, desc)
    ELSE k - 1

RECURSIVE reverse_slice(_)
reverse_slice(s) == IF s = << >> THEN << >> ELSE reverse_slice(Tail(s)) \o << Head(s) >>

RECURSIVE bisect(_, _, _, _)
bisect(s, pivot, l, r) ==
    IF l >= r THEN l
    ELSE LET p == l + ((r - l) \div 2)
         IN  IF IsLT(pivot, s[p + 1]) THEN bisect(s, pivot, l, p) ELSE bisect(s, pivot, p + 1, r)

RECURSIVE binarysort(_, _)
binarysort(s, start) ==
    IF start >= Len(s) THEN s
    ELSE LET pivot == s[start + 1]
             l == bisect(s, pivot, 0, start)
         IN  binarysort(SubSeq(s, 1, l) \o << pivot >> \o SubSeq(s, l + 1, start)
                          \o SubSeq(s, start + 2, Len(s)), start + 1)

sorted(s) ==
    IF Len(s) < 2 THEN s
    ELSE LET desc == IsLT(s[2], s[1])
             n == count_run(s, 3, desc)
             run == IF desc THEN reverse_slice(SubSeq(s, 1, n)) \o SubSeq(s, n + 1, Len(s)) ELSE s
         IN  binarysort(run, n)

----------------------------------------------------------------------------
(* Kinematics: line lengths, spool buildup, the L2 residual *)

\* indices of the motors and of the axes (lines 24-30)
A == 0
B == 1
C == 2
X == 0
Y == 1
Z == 2

\* the largest k in lo..hi with k * k <= n
RECURSIVE ISqrtIn(_, _, _)
ISqrtIn(n, lo, hi) ==
    IF lo >= hi THEN lo
    ELSE LET mid == (lo + hi + 1) \div 2
         IN  IF mid * mid <= n THEN ISqrtIn(n, mid, hi) ELSE ISqrtIn(n, lo, mid - 1)

ISqrt(n) == ISqrtIn(n, 0, Min(n, 46340))

\* a is the square of a modelled double
IsSquare(a) ==
    /\ ~IsNaN(a) /\ a.n >= 0
    /\ ISqrt(a.n) * ISqrt(a.n) = a.n
    /\ ISqrt(a.d) * ISqrt(a.d) = a.d

\* np.sqrt: exact where a is a square (the inputs of the model are chosen so that it
\* is), NaN below zero
RSqrt(a) == IF IsNaN(a) \/ a.n < 0 THEN NaN ELSE Rat(ISqrt(a.n), ISqrt(a.d))

\* np.abs
RAbs(a) == IF IsNaN(a) THEN NaN ELSE IF a.n < 0 THEN RNeg(a) ELSE a

\* max(a, b) of Python: b when a < b, else a
RMax(a, b) == IF RLt(a, b) THEN b ELSE a

\* the square of the 2-norm of v - w for rows v, w of three coordinates
NormSq(v, w) ==
    RAdd(RAdd(RMul(RSub(v[1], w[1]), RSub(v[1], w[1])),
              RMul(RSub(v[2], w[2]), RSub(v[2], w[2]))),
         RMul(RSub(v[3], w[3]), RSub(v[3], w[3])))

\* np.linalg.norm of v - w
norm(v, w) == RSqrt(NormSq(v, w))

origin == << Zero, Zero, Zero >>

\* samples_relative_to_origin_no_fuzz with the first position as the reference
samples_relative_to_origin_no_fuzz_mut(anchors, pos) ==
    [r \in 1..Len(pos) |->
        [a \in 1..4 |-> RSub(norm(anchors[a], pos[r]), norm(anchors[a], pos[1]))]]

\* samples_relative_to_origin_no_fuzz (lines 152-164): one row per position, one
\* column per anchor
samples_relative_to_origin_no_fuzz(anchors, pos) ==
    [r \in 1..Len(pos) |->
        [a \in 1..4 |-> RSub(norm(anchors[a], pos[r]), norm(anchors[a], origin))]]

\* defaults of the buildup functions (lines 171-173, 210-212)
spool_to_motor_gearing_factor == Rat(51, 4)
mech_adv == << Rat(2, 1), Rat(2, 1), Rat(2, 1), Rat(2, 1) >>
number_of_lines_per_spool == << Rat(1, 1), Rat(1, 1), Rat(1, 1), Rat(1, 1) >>

\* np.pi; both buildup functions divide by the same 2.0 * np.pi, a rational of
\* about that size stands for it
pi == Rat(22, 7)

\* lines 189-191 and 218-220
degrees_per_unit_times_r ==
    [j \in 1..4 |-> RDiv(RMul(RMul(spool_to_motor_gearing_factor, mech_adv[j]), Rat(360, 1)),
                         RMul(Rat(2, 1), pi))]

\* lines 178-202: motor positions (degrees) of a matrix of line-length deltas
motor_positions(relative_line_lengths, spool_buildup_factor, spool_r_in_origin) ==
    LET spool_r_in_origin_sq == [j \in 1..4 |-> RMul(spool_r_in_origin[j], spool_r_in_origin[j])]
        k2 == [j \in 1..4 |-> RMul(RMul(RMul(Rat(-1, 1), mech_adv[j]), number_of_lines_per_spool[j]),
                                   spool_buildup_factor)]
        k0 == [j \in 1..4 |-> RDiv(RMul(Rat(2, 1), degrees_per_unit_times_r[j]), k2[j])]
    IN  [r \in 1..Len(relative_line_lengths) |->
            [j \in 1..4 |->
                RMul(k0[j], RSub(RSqrt(RAdd(spool_r_in_origin_sq[j],
                                            RMul(relative_line_lengths[r][j], k2[j]))),
                                 spool_r_in_origin[j]))]]

\* motor_pos_samples_with_spool_buildup_compensation (lines 167-204)
motor_pos_samples_with_spool_buildup_compensation(anchors, pos, spool_buildup_factor, spool_r_in_origin) ==
    motor_positions(samples_relative_to_origin_no_fuzz(anchors, pos), spool_buildup_factor,
                    spool_r_in_origin)

\* the inverse with the square of the radius added instead of subtracted
motor_pos_samples_to_line_length_with_buildup_compensation_mut(motor_samps, spool_buildup_factor, spool_r) ==
    LET c1 == [j \in 1..4 |-> RMul(RMul(RNeg(mech_adv[j]), number_of_lines_per_spool[j]),
                                   spool_buildup_factor)]
        k0 == [j \in 1..4 |-> RDiv(RMul(Rat(2, 1), degrees_per_unit_times_r[j]), c1[j])]
    IN  [r \in 1..Len(motor_samps) |->
            [j \in 1..4 |->
                LET t == RAdd(RDiv(motor_samps[r][j], k0[j]), spool_r[j])
                IN  RDiv(RAdd(RMul(t, t), RMul(spool_r[j], spool_r[j])), c1[j])]]

\* motor_pos_samples_to_line_length_with_buildup_compensation (lines 207-225)
motor_pos_samples_to_line_length_with_buildup_compensation(motor_samps, spool_buildup_factor, spool_r) ==
    LET c1 == [j \in 1..4 |-> RMul(RMul(RNeg(mech_adv[j]), number_of_lines_per_spool[j]),
                                   spool_buildup_factor)]
        k0 == [j \in 1..4 |-> RDiv(RMul(Rat(2, 1), degrees_per_unit_times_r[j]), c1[j])]
    IN  [r \in 1..Len(motor_samps) |->
            [j \in 1..4 |->
                LET t == RAdd(RDiv(motor_samps[r][j], k0[j]), spool_r[j])
                IN  RDiv(RSub(RMul(t, t), RMul(spool_r[j], spool_r[j])), c1[j])]]

\* lines 306-310: the matrix cost_sq_for_pos_samp squares and sums
residual(anchors, pos, motor_samps, spool_buildup_factor, spool_r) ==
    LET model == samples_relative_to_origin_no_fuzz(anchors, pos)
        meas == motor_pos_samples_to_line_length_with_buildup_compensation(
                    motor_samps, spool_buildup_factor, spool_r)
    IN  [r \in 1..Len(pos) |-> [a \in 1..4 |-> RSub(model[r][a], meas[r][a])]]

RECURSIVE SumSq(_)
SumSq(row) == IF row = << >> THEN Zero ELSE RAdd(RMul(Head(row), Head(row)), SumSq(Tail(row)))

RECURSIVE SumRows(_)
SumRows(m) == IF m = << >> THEN Zero ELSE RAdd(SumSq(Head(m)), SumRows(Tail(m)))

\* cost_sq_for_pos_samp (lines 290-312)
cost_sq_for_pos_samp(anchors, pos, motor_samps, spool_buildup_factor, spool_r) ==
    SumRows(residual(anchors, pos, motor_samps, spool_buildup_factor, spool_r))

----------------------------------------------------------------------------
(* The cost evaluation and the repair heuristic of solve *)

\* solve.costx (lines 424-443) given the working vector x of the optimizer, whose
\* slices the lambda hands over: whether it raised, the position matrix it passed to
\* _cost, and x as the call left it (posvec is a view of x, pos a view of posvec)
costx(x, xyz_of_samp, n_u) ==
    LET n_ux == Len(xyz_of_samp)
        rows == n_u - n_ux
        pos0 == posvec2matrix(PySlice(x, params_anch, -params_buildup), rows)
        t == Min(n_ux, rows)
        fits == n_ux = t \/ n_ux = 1
        pos1 == [r \in 1..rows |->
                    IF n_ux # 0 /\ r <= t
                    THEN (IF n_ux = t THEN xyz_of_samp[r] ELSE xyz_of_samp[1])
                    ELSE pos0[r]]
        x1 == [j \in 1..Len(x) |->
                  IF j > params_anch /\ j <= params_anch + 3 * rows
                  THEN pos1[((j - params_anch - 1) \div 3) + 1][((j - params_anch - 1) % 3) + 1]
                  ELSE x[j]]
        broadcasts == rows = n_u \/ rows = 1 \/ n_u = 1
    IN  IF n_ux # 0 /\ ~fits THEN [raised |-> TRUE, pos |-> << >>, x |-> x]
        ELSE IF ~broadcasts THEN [raised |-> TRUE, pos |-> << >>, x |-> x1]
        ELSE [raised |-> FALSE,
              pos |-> [r \in 1..rows |-> [c \in 1..3 |-> RMul(pos1[r][c], pos_scale)]],
              x |-> x1]

\* computeCost (lines 1082-1096): the position matrix it builds from a solution
computeCost_pos(solution, xyz_of_samp, n_u) ==
    IF Len(xyz_of_samp) # 0
    THEN xyz_of_samp \o posvec2matrix(PySlice(solution, params_anch, -params_buildup),
                                      n_u - Len(xyz_of_samp))
    ELSE posvec2matrix(PySlice(solution, params_anch, -params_buildup), n_u)

\* x[j] of Python for j >= 0 raises IndexError unless j is below the length
InRange(x, j) == j < Len(x)

\* lines 580-594: the sign of y
constraints_y_sign(st, row, iy) ==
    IF st.raised THEN st
    ELSE IF RLt(row[A + 1], Zero)
         THEN IF InRange(st.x, iy)
              THEN [st EXCEPT !.x = SetAt(st.x, iy, RNeg(RAbs(At(st.x, iy))))]
              ELSE [st EXCEPT !.raised = TRUE]
    ELSE IF RLt(row[B + 1], Zero) /\ RLt(row[C + 1], Zero)
         THEN IF InRange(st.x, iy)
              THEN [st EXCEPT !.x = SetAt(st.x, iy, RAbs(At(st.x, iy)))]
              ELSE [st EXCEPT !.raised = TRUE]
    ELSE st

\* lines 595-612: the sign of x
constraints_x_sign(st, row, ix) ==
    IF st.raised THEN st
    ELSE IF RLt(row[A + 1], Zero) /\ RLt(row[B + 1], Zero)
         THEN IF InRange(st.x, ix)
              THEN [st EXCEPT !.x = SetAt(st.x, ix, RAbs(At(st.x, ix)))]
              ELSE [st EXCEPT !.raised = TRUE]
    ELSE IF RLt(row[A + 1], Zero) /\ RLt(row[C + 1], Zero)
         THEN IF InRange(st.x, ix)
              THEN [st EXCEPT !.x = SetAt(st.x, ix, RNeg(RAbs(At(st.x, ix))))]
              ELSE [st EXCEPT !.raised = TRUE]
    ELSE st

\* lines 613-618: x between the anchors C and B
constraints_x_clamp(st, ix) ==
    IF st.raised THEN st
    ELSE IF ~InRange(st.x, ix) THEN [st EXCEPT !.raised = TRUE]
    ELSE IF RLt(At(st.x, 2), At(st.x, ix)) THEN [st EXCEPT !.x = SetAt(st.x, ix, At(st.x, 2))]
    ELSE IF RLt(At(st.x, ix), At(st.x, 5)) THEN [st EXCEPT !.x = SetAt(st.x, ix, At(st.x, 5))]
    ELSE st

\* lines 619-624: y between the anchor A and the anchors B and C
constraints_y_clamp(st, iy) ==
    IF st.raised THEN st
    ELSE IF ~InRange(st.x, iy) THEN [st EXCEPT !.raised = TRUE]
    ELSE IF RLt(At(st.x, iy), At(st.x, 0)) THEN [st EXCEPT !.x = SetAt(st.x, iy, At(st.x, 0))]
    ELSE IF RLt(At(st.x, 3), At(st.x, iy)) /\ RLt(At(st.x, 6), At(st.x, iy))
         THEN [st EXCEPT !.x = SetAt(st.x, iy, RMax(At(st.x, 3), At(st.x, 6)))]
    ELSE st

\* lines 625-627: z below the anchor D
constraints_z_clamp(st, iz) ==
    IF st.raised THEN st
    ELSE IF ~InRange(st.x, iz) THEN [st EXCEPT !.raised = TRUE]
    ELSE IF RLt(At(st.x, 8), At(st.x, iz)) THEN [st EXCEPT !.x = SetAt(st.x, iz, At(st.x, 8))]
    ELSE st

\* lines 579-627: the body of the loop for one samp_num
constraints_samp(st, row, samp_num) ==
    LET ix == params_anch + samp_num * 3 + X
        iy == params_anch + samp_num * 3 + Y
        iz == params_anch + samp_num * 3 + Z
    IN  constraints_z_clamp(
            constraints_y_clamp(
                constraints_x_clamp(
                    constraints_x_sign(constraints_y_sign(st, row, iy), row, ix), ix), iy), iz)

RECURSIVE constraints_from(_, _, _, _)
constraints_from(st, motor_samps, samp_num, n_u) ==
    IF samp_num >= n_u \/ st.raised THEN st
    ELSE constraints_from(constraints_samp(st, motor_samps[samp_num + 1], samp_num),
                          motor_samps, samp_num + 1, n_u)

\* solve.constraints (lines 578-629): x is changed in place; raised: an IndexError
\* ended the call
constraints(x, motor_samps, n_u) ==
    constraints_from([x |-> x, raised |-> FALSE], motor_samps, 0, n_u)

----------------------------------------------------------------------------
(* State of one run of the program *)

VARIABLES
    method,          \* args["method"] after lines 930-941
    u,               \* number of rows of motor_pos_samp
    ux,              \* number of rows of xyz_of_samp
    cx_is_positive,  \* args["cx_is_positive"]
    debug,           \* args["debug"]
    pc,              \* position of the program
    todo,            \* strategy names whose solve call is still to come
    cur,             \* the method argument of the solve call in progress
    lb, ub,          \* bound lists of the solve call in progress
    x_guess,         \* x_guess of the solve call in progress
    i,               \* loop variable of the random-restart loop
    best_cost,       \* best_cost of the random-restart loop
    best_x,          \* best_x of the random-restart loop
    kill_now,        \* killer.kill_now
    seed,            \* starting point of the latest solver run (<< >>: the solver draws its own)
    runs,            \* solver runs started in the solve call in progress
    polls,           \* reads of killer.kill_now in the solve call in progress
    trial_min,       \* least fun of the completed random-restart trials, and the x that reached it
    raw,             \* the solver result solve is about to scale back
    ret,             \* value returned by the latest solve call (<< >>: none)
    cands,           \* the list cands of all-strategies mode
    the_cand,        \* the_cand
    out,             \* what was printed, as tags
    exit_status,     \* -1 while running, else the status of the process
    solves,          \* solve calls started
    motor_pos_samp,  \* the motor samples, one row of four per sample
    computed,        \* the calls of computeCost so far: the solution given, the value returned
    op,              \* the function under evaluation ("none": a run of __main__)
    inp,             \* the arguments of the function under evaluation
    res              \* what the function under evaluation returned and left behind

vars == << method, u, ux, cx_is_positive, debug, pc, todo, cur, lb, ub, x_guess, i,
           best_cost, best_x, kill_now, seed, runs, polls, trial_min, raw, ret, cands,
           the_cand, out, exit_status, solves, motor_pos_samp, computed, op, inp, res >>

args == << method, u, ux, cx_is_positive, debug, motor_pos_samp >>
eval_vars == << op, inp, res >>
loop_vars == << i, best_cost, best_x, kill_now, polls, trial_min >>
box_vars == << lb, ub >>

\* before any trial has completed
no_trial == [fun |-> NaN, xs |-> {}]

\* the record of completed trials after one more: the least fun so far (a NaN is
\* least only among NaNs) and every x that reached it
log_trial(m, sol) ==
    IF m.xs = {} \/ RLt(sol.fun, m.fun) \/ (IsNaN(m.fun) /\ ~IsNaN(sol.fun))
    THEN [fun |-> sol.fun, xs |-> {sol.x}]
    ELSE IF sol.fun = m.fun THEN [fun |-> m.fun, xs |-> m.xs \cup {sol.x}]
    ELSE m

\* the locals of solve when no call of solve is in progress
NoSolve ==
    /\ lb = << >> /\ ub = << >> /\ x_guess = << >>
    /\ i = 0 /\ best_cost = Zero /\ best_x = << >> /\ kill_now = FALSE
    /\ seed = << >> /\ runs = 0 /\ polls = 0 /\ trial_min = no_trial
    /\ raw = << >>

\* solve has returned: its locals are gone
DropLocals ==
    /\ lb' = << >> /\ ub' = << >> /\ x_guess' = << >>
    /\ i' = 0 /\ best_cost' = Zero /\ best_x' = << >> /\ kill_now' = FALSE
    /\ seed' = << >> /\ runs' = 0 /\ polls' = 0 /\ trial_min' = no_trial
    /\ raw' = << >>

\* the state before the first statement of __main__, but for the arguments
Start ==
    /\ pc = "main"
    /\ todo = << >>
    /\ cur = ""
    /\ NoSolve
    /\ ret = << >>
    /\ cands = << >>
    /\ the_cand = [name |-> "unset"]
    /\ out = << >>
    /\ exit_status = -1
    /\ solves = 0
    /\ computed = {}
    /\ op = "none"
    /\ inp = << >>
    /\ res = << >>

\* runs with one strategy, or with a name solve does not know
Init ==
    /\ method \in {method_of_arg(a) : a \in MethodArgs} \ {"all"}
    /\ u \in UValues
    /\ ux \in UxValues
    /\ cx_is_positive \in BOOLEAN
    /\ debug \in BOOLEAN
    /\ motor_pos_samp = default_samples(u)
    /\ Start

\* runs of all-strategies mode
InitAll ==
    /\ method = method_of_arg("5")
    /\ u = 1
    /\ ux = 0
    /\ cx_is_positive = FALSE
    /\ debug \in BOOLEAN
    /\ motor_pos_samp = default_samples(u)
    /\ Start

ndim == 3 * (u - ux) + params_anch + params_buildup

\* lines 1070-1141: the shape check, then the placeholder candidate
Main ==
    /\ pc = "main"
    /\ IF ux > u
       THEN /\ out' = Append(out, "more_xyz_than_samples")
            /\ exit_status' = 1
            /\ pc' = "exited"
            /\ UNCHANGED << the_cand, todo >>
       ELSE /\ the_cand' = candidate("no_name", zeros(ndim), NaN, u, ux)
            /\ todo' = IF method = "all" THEN StrategyNames ELSE << method >>
            /\ pc' = "dispatch"
            /\ UNCHANGED << out, exit_status >>
    /\ UNCHANGED << args, eval_vars, computed, cur, box_vars, x_guess, loop_vars, seed, runs, raw, ret, cands, solves >>

\* the call of solve (lines 1147, 1165) up to the dispatch on method (lines 390-576)
SolveBegin ==
    /\ pc = "dispatch"
    /\ todo # << >>
    /\ cur' = Head(todo)
    /\ todo' = Tail(todo)
    /\ out' = Append(out, "method")
    /\ lb' = solve_lb(u, ux, cx_is_positive)
    /\ ub' = solve_ub(u, ux, cx_is_positive)
    /\ x_guess' = solve_x_guess(u, ux)
    /\ solves' = solves + 1
    /\ ret' = << >>
    /\ pc' = "strategy"
    /\ UNCHANGED << args, eval_vars, computed, loop_vars, seed, runs, raw, cands, the_cand, exit_status >>

\* an uncaught ValueError from costx ends the process with a traceback
Raised ==
    /\ pc' = "raised"
    /\ exit_status' = 1
    /\ out' = Append(out, "traceback")

\* lines 827-842: one bounded quasi-Newton run from x_guess
SolveLBFGSB ==
    /\ pc = "strategy" /\ cur = "L-BFGS-B"
    /\ seed' = x_guess
    /\ runs' = runs + 1
    /\ IF costx_raises(u, ux)
       THEN Raised /\ UNCHANGED << raw, ret >>
       ELSE /\ \E p \in PointNames : raw' = BoxPoint(p, lb, ub)
            /\ ret' = scale_back_solution(raw')
            /\ pc' = "returned"
            /\ UNCHANGED << out, exit_status >>
    /\ UNCHANGED << args, eval_vars, computed, todo, cur, box_vars, x_guess, loop_vars, cands, the_cand, solves >>

\* SolvePowell run twice, the second run seeded from the best solution of the first
SolvePowell_mut ==
    /\ pc = "strategy" /\ cur = "PowellDirectionalSolver"
    /\ seed' = x_guess
    /\ runs' = runs + 1
    /\ IF costx_raises(u, ux)
       THEN Raised /\ UNCHANGED << raw, ret, x_guess >>
       ELSE /\ \E p \in PointNames : raw' = BoxPoint(p, lb, ub)
            /\ x_guess' = raw'
            /\ IF runs' < 2
               THEN pc' = "strategy" /\ UNCHANGED ret
               ELSE ret' = scale_back_solution(x_guess') /\ pc' = "returned"
            /\ UNCHANGED << out, exit_status >>
    /\ UNCHANGED << args, eval_vars, computed, todo, cur, box_vars, loop_vars, cands, the_cand, solves >>

\* lines 726-756: one direction-set run from x_guess; x_guess becomes its best solution
SolvePowell ==
    /\ pc = "strategy" /\ cur = "PowellDirectionalSolver"
    /\ seed' = x_guess
    /\ runs' = runs + 1
    /\ IF costx_raises(u, ux)
       THEN Raised /\ UNCHANGED << raw, ret, x_guess >>
       ELSE /\ \E p \in PointNames : raw' = BoxPoint(p, lb, ub)
            /\ x_guess' = raw'
            /\ ret' = scale_back_solution(x_guess')
            /\ pc' = "returned"
            /\ UNCHANGED << out, exit_status >>
    /\ UNCHANGED << args, eval_vars, computed, todo, cur, box_vars, loop_vars, cands, the_cand, solves >>

\* lines 631-665: one evolutionary run from random initial points within the box;
\* the solver passes every trial vector through constraints before it costs it
SolveDE ==
    /\ pc = "strategy" /\ cur = "differentialEvolutionSolver"
    /\ seed' = << >>
    /\ runs' = runs + 1
    /\ \E p \in PointNames :
         LET repaired == constraints(BoxPoint(p, lb, ub), motor_pos_samp, u)
         IN  IF costx_raises(u, ux) \/ repaired.raised
             THEN Raised /\ UNCHANGED << raw, ret >>
             ELSE /\ raw' = repaired.x
                  /\ ret' = scale_back_solution(raw')
                  /\ pc' = "returned"
                  /\ UNCHANGED << out, exit_status >>
    /\ UNCHANGED << args, eval_vars, computed, todo, cur, box_vars, x_guess, loop_vars, cands, the_cand, solves >>

\* lines 667-724: one scatter search; the minimum of its minima is returned
SolveBuckShot ==
    /\ pc = "strategy" /\ cur = "BuckShot"
    /\ seed' = << >>
    /\ runs' = runs + 1
    /\ IF costx_raises(u, ux)
       THEN Raised /\ UNCHANGED << raw, ret >>
       ELSE /\ \E p \in PointNames : raw' = BoxPoint(p, lb, ub)
            /\ ret' = scale_back_solution(raw')
            /\ pc' = "returned"
            /\ UNCHANGED << out, exit_status >>
    /\ UNCHANGED << args, eval_vars, computed, todo, cur, box_vars, x_guess, loop_vars, cands, the_cand, solves >>

\* lines 758-762: the random-restart strategy sets up its loop and its killer
SLSQPInit ==
    /\ pc = "strategy" /\ cur = "SLSQP"
    /\ best_cost' = best_cost_start
    /\ best_x' = x_guess
    /\ kill_now' = FALSE
    /\ i' = 0
    /\ pc' = "slsqp_poll"
    /\ UNCHANGED << args, eval_vars, computed, todo, cur, box_vars, x_guess, seed, runs, polls, trial_min, raw, ret,
                    cands, the_cand, out, exit_status, solves >>

\* SLSQPPoll that reads the flag but starts the next trial all the same
SLSQPPoll_mut ==
    /\ pc = "slsqp_poll"
    /\ IF i >= MaxTrials
       THEN /\ pc' = "slsqp_ret"
            /\ UNCHANGED << polls, seed >>
       ELSE /\ polls' = polls + 1
            /\ \E r \in RandValues : seed' = random_guess(lb, ub, r)
            /\ pc' = "slsqp_trial"
    /\ UNCHANGED << args, eval_vars, computed, todo, cur, box_vars, x_guess, i, best_cost, best_x, kill_now, runs,
                    trial_min, raw, ret, cands, the_cand, out, exit_status, solves >>

\* lines 764-767: the head of one iteration: range(30), the poll, the random guess
SLSQPPoll ==
    /\ pc = "slsqp_poll"
    /\ IF i >= MaxTrials
       THEN /\ pc' = "slsqp_ret"
            /\ UNCHANGED << polls, seed >>
       ELSE /\ polls' = polls + 1
            /\ IF kill_now
               THEN pc' = "slsqp_ret" /\ UNCHANGED seed
               ELSE /\ \E r \in RandValues : seed' = random_guess(lb, ub, r)
                    /\ pc' = "slsqp_trial"
    /\ UNCHANGED << args, eval_vars, computed, todo, cur, box_vars, x_guess, i, best_cost, best_x, kill_now, runs,
                    trial_min, raw, ret, cands, the_cand, out, exit_status, solves >>

\* lines 768-787: one bounded local minimisation from the random guess, then the comparison
SLSQPTrial ==
    /\ pc = "slsqp_trial"
    /\ runs' = runs + 1
    /\ IF costx_raises(u, ux)
       THEN Raised /\ UNCHANGED << i, best_cost, best_x, trial_min >>
       ELSE /\ \E p \in PointNames, f \in FunValues :
                LET sol == [x |-> BoxPoint(p, lb, ub), fun |-> f]
                IN  /\ trial_min' = log_trial(trial_min, sol)
                    /\ IF RLt(sol.fun, best_cost)
                       THEN best_cost' = sol.fun /\ best_x' = sol.x
                       ELSE UNCHANGED << best_cost, best_x >>
            /\ i' = i + 1
            /\ pc' = "slsqp_poll"
            /\ UNCHANGED << out, exit_status >>
    /\ UNCHANGED << args, eval_vars, computed, todo, cur, box_vars, x_guess, kill_now, seed, polls, raw, ret,
                    cands, the_cand, solves >>

\* line 825: the random-restart strategy returns best_x, scaled back
SLSQPReturn ==
    /\ pc = "slsqp_ret"
    /\ raw' = best_x
    /\ ret' = scale_back_solution(raw')
    /\ pc' = "returned"
    /\ UNCHANGED << args, eval_vars, computed, todo, cur, box_vars, x_guess, loop_vars, seed, runs, cands, the_cand,
                    out, exit_status, solves >>

\* lines 13-20: SIGINT or SIGTERM arrives while the killer of the loop is installed
Signal ==
    /\ pc \in {"slsqp_poll", "slsqp_trial"}
    /\ ~kill_now
    /\ kill_now' = TRUE
    /\ UNCHANGED << args, eval_vars, computed, pc, todo, cur, box_vars, x_guess, i, best_cost, best_x, seed, runs,
                    polls, trial_min, raw, ret, cands, the_cand, out, exit_status, solves >>

\* SolveUnsupported that prints the message and falls back to the initial guess
SolveUnsupported_mut ==
    /\ pc = "strategy" /\ cur \notin Supported
    /\ out' = Append(out, "not_supported")
    /\ raw' = x_guess
    /\ ret' = scale_back_solution(raw')
    /\ pc' = "returned"
    /\ UNCHANGED << args, eval_vars, computed, todo, cur, box_vars, x_guess, loop_vars, seed, runs, cands,
                    the_cand, exit_status, solves >>

\* lines 844-846: any other method name
SolveUnsupported ==
    /\ pc = "strategy" /\ cur \notin Supported
    /\ out' = Append(out, "not_supported")
    /\ exit_status' = 1
    /\ pc' = "exited"
    /\ UNCHANGED << args, eval_vars, computed, todo, cur, box_vars, x_guess, loop_vars, seed, runs, raw, ret, cands,
                    the_cand, solves >>

\* lines 1145-1150 and 1163-1171: the candidate of the solve call that just returned;
\* the locals of that call are gone
MakeCandidate ==
    /\ pc = "returned"
    /\ \E c \in CostValues :
         LET cand == candidate(cur, ret, c, u, ux)
         IN  /\ computed' = IF any(ret)
                             THEN computed \cup {[solution |-> ret, value |-> c]}
                             ELSE computed
             /\ IF method = "all"
                THEN /\ cands' = Append(cands, cand)
                     /\ pc' = IF todo = << >> THEN "rank" ELSE "dispatch"
                     /\ UNCHANGED the_cand
                ELSE /\ the_cand' = cand
                     /\ pc' = "report"
                     /\ UNCHANGED cands
    /\ out' = IF any(ret) THEN Append(out, "has_cost") ELSE out
    /\ DropLocals
    /\ UNCHANGED << args, eval_vars, todo, cur, ret, exit_status, solves >>

\* lines 1159-1161: the ranking of all-strategies mode
Rank ==
    /\ pc = "rank"
    /\ cands' = sorted(cands)
    /\ the_cand' = cands'[1]
    /\ out' = Append(out, "winner")
    /\ pc' = "report"
    /\ UNCHANGED << args, eval_vars, computed, todo, cur, box_vars, x_guess, loop_vars, seed, runs, raw, ret,
                    exit_status, solves >>

\* Report that goes on to the result after the lack-of-data error, flag or no flag
Report_mut ==
    /\ pc = "report"
    /\ LET totals == Append(out, "totals")
       IN  IF u + 3 * ux < params_anch
           THEN /\ out' = totals \o << "lack_of_data", "copypasteable" >>
                /\ exit_status' = 0
                /\ pc' = "done"
           ELSE /\ out' = IF u + 3 * ux < params_anch + 4
                          THEN totals \o << "warning", "copypasteable" >>
                          ELSE Append(totals, "copypasteable")
                /\ exit_status' = 0
                /\ pc' = "done"
    /\ UNCHANGED << args, eval_vars, computed, todo, cur, box_vars, x_guess, loop_vars, seed, runs, raw, ret, cands,
                    the_cand, solves >>

\* lines 1175-1199: the totals, the lack-of-data gate, the result
Report ==
    /\ pc = "report"
    /\ LET totals == Append(out, "totals")
       IN  IF u + 3 * ux < params_anch
           THEN IF ~debug
                THEN /\ out' = Append(totals, "lack_of_data")
                     /\ exit_status' = 1
                     /\ pc' = "exited"
                ELSE /\ out' = totals \o << "lack_of_data", "bogus", "copypasteable" >>
                     /\ exit_status' = 0
                     /\ pc' = "done"
           ELSE /\ out' = IF u + 3 * ux < params_anch + 4
                          THEN totals \o << "warning", "copypasteable" >>
                          ELSE Append(totals, "copypasteable")
                /\ exit_status' = 0
                /\ pc' = "done"
    /\ UNCHANGED << args, eval_vars, computed, todo, cur, box_vars, x_guess, loop_vars, seed, runs, raw, ret, cands,
                    the_cand, solves >>

Next ==
    \/ Main
    \/ SolveBegin
    \/ SolveLBFGSB
    \/ SolvePowell
    \/ SLSQPInit
    \/ SLSQPPoll
    \/ SLSQPTrial
    \/ SLSQPReturn
    \/ Signal
    \/ SolveDE
    \/ SolveBuckShot
    \/ SolveUnsupported
    \/ MakeCandidate
    \/ Report

Spec == Init /\ [][Next]_vars

NextAll ==
    \/ Main
    \/ SolveBegin
    \/ SolveLBFGSB
    \/ SolvePowell
    \/ SLSQPInit
    \/ SLSQPPoll
    \/ SLSQPTrial
    \/ SLSQPReturn
    \/ Signal
    \/ SolveDE
    \/ SolveBuckShot
    \/ MakeCandidate
    \/ Rank
    \/ Report

SpecAll == InitAll /\ [][NextAll]_vars

----------------------------------------------------------------------------
(* The functions of the estimation engine, each applied once to arguments drawn *)
(* from bounded sets                                                            *)

\* the variables of a run of __main__
run_vars == << method, u, ux, cx_is_positive, debug, motor_pos_samp, pc, todo, cur, lb, ub,
               x_guess, i, best_cost, best_x, kill_now, seed, runs, polls, trial_min, raw, ret,
               cands, the_cand, out, exit_status, solves, computed >>

\* vectors of the box [l, h]: both corners and the centre
BoxSamples(l, h) == {l, h, random_guess(l, h, Rat(1, 2))}

\* anchors whose distances to the positions of PositionValues are whole numbers:
\* A = (0, -3, 0), B = (3, 0, 0), C = (-3, 0, 0), D = (0, 0, 8)
KinAnchors ==
    anchorsvec2matrix(<< Rat(-3, 1), Zero, Rat(3, 1), Zero, Zero, Rat(-3, 1), Zero, Zero, Rat(8, 1) >>)

Coordinates == {Rat(-4, 1), Zero, Rat(4, 1)}

\* every distance from p to an anchor of KinAnchors is a modelled double
ExactPosition(p) == \A a \in 1..4 : IsSquare(NormSq(KinAnchors[a], p))

PositionValues == {p \in {<< cx, cy, cz >> : cx \in Coordinates, cy \in Coordinates, cz \in Coordinates} : ExactPosition(p)}

ShiftValues == { << Zero, Zero, Zero >>, << Zero, Zero, Rat(4, 1) >>, << Zero, Zero, Rat(-4, 1) >>,
                 << Zero, Zero, Rat(8, 1) >>, << Zero, Zero, Rat(-8, 1) >> }

\* pos with every row but the first moved by shift
shifted(pos, shift) ==
    [r \in 1..Len(pos) |->
        IF r = 1 THEN pos[r] ELSE [c \in 1..3 |-> RAdd(pos[r][c], shift[c])]]

BuildupFactors == {Rat(1, 2), Rat(1, 125)}

SpoolRadii == { << Rat(5, 1), Rat(5, 1), Rat(5, 1), Rat(5, 1) >>,
                << Rat(5, 1), Rat(6, 1), Rat(5, 1), Rat(6, 1) >>,
                << Rat(65, 1), Rat(65, 1), Rat(65, 1), Rat(65, 1) >> }

DeltaValues == {Zero, Rat(9, 1), Rat(16, 1), Rat(-11, 1), Rat(11, 1), Rat(20, 1), Rat(-13, 1),
                Rat(6495, 8)}

\* the radicand of the forward relation for one line
radicand(delta, spool_buildup_factor, r, j) ==
    RAdd(RMul(r, r),
         RMul(delta, RMul(RMul(RMul(Rat(-1, 1), mech_adv[j]), number_of_lines_per_spool[j]),
                          spool_buildup_factor)))

\* the state of __main__ while a single function is evaluated
EvalIdle ==
    /\ method = "L-BFGS-B"
    /\ debug = FALSE
    /\ pc = "eval"
    /\ todo = << >>
    /\ cur = ""
    /\ NoSolve
    /\ ret = << >>
    /\ cands = << >>
    /\ the_cand = [name |-> "unset"]
    /\ out = << >>
    /\ exit_status = -1
    /\ solves = 0
    /\ computed = {}

InitEval ==
    /\ EvalIdle
    /\ res = << >>
    /\ \/ /\ op = "costx"
          /\ u \in 1..MaxU
          /\ ux \in 0..u
          /\ cx_is_positive \in BOOLEAN
          /\ motor_pos_samp = default_samples(u)
          /\ \E v \in BoxSamples(solve_lb(u, ux, cx_is_positive), solve_ub(u, ux, cx_is_positive)) :
                inp = [x |-> v]
       \/ /\ op = "constraints"
          /\ u \in 1..MaxU
          /\ ux \in 0..u
          /\ cx_is_positive \in BOOLEAN
          /\ motor_pos_samp \in [1..u -> SampleRows]
          /\ \E v \in BoxSamples(solve_lb(u, ux, cx_is_positive), solve_ub(u, ux, cx_is_positive)) :
                inp = [x |-> v]
       \/ /\ op = "buildup"
          /\ u = 1 /\ ux = 0 /\ cx_is_positive = FALSE
          /\ motor_pos_samp = default_samples(u)
          /\ \E b \in BuildupFactors, r \in SpoolRadii, line \in [1..4 -> DeltaValues] :
                /\ \A j \in 1..4 : IsSquare(radicand(line[j], b, r[j], j))
                /\ inp = [spool_buildup_factor |-> b, spool_r |-> r, line |-> << line >>]
       \/ /\ op = "residual"
          /\ u \in 2..MaxU /\ ux = 0 /\ cx_is_positive = FALSE
          /\ motor_pos_samp = default_samples(u)
          /\ \E pos \in [1..u -> PositionValues], t \in ShiftValues :
                /\ \A r \in 1..u : ExactPosition(shifted(pos, t)[r])
                /\ inp = [anchors |-> KinAnchors, pos |-> pos, shift |-> t,
                          spool_buildup_factor |-> Rat(1, 2),
                          spool_r |-> << Rat(5, 1), Rat(5, 1), Rat(5, 1), Rat(5, 1) >>]

\* one call of costx by a solver
EvalCostx ==
    /\ op = "costx" /\ res = << >>
    /\ res' = costx(inp.x, xyz_rows(ux), u)
    /\ UNCHANGED << run_vars, op, inp >>

\* one call of constraints by the evolutionary solver
EvalConstraints ==
    /\ op = "constraints" /\ res = << >>
    /\ res' = constraints(inp.x, motor_pos_samp, u)
    /\ UNCHANGED << run_vars, op, inp >>

\* line-length deltas to motor positions and back
EvalBuildup ==
    /\ op = "buildup" /\ res = << >>
    /\ LET motor == motor_positions(inp.line, inp.spool_buildup_factor, inp.spool_r)
       IN  res' = [motor |-> motor,
                   line |-> motor_pos_samples_to_line_length_with_buildup_compensation(
                                motor, inp.spool_buildup_factor, inp.spool_r)]
    /\ UNCHANGED << run_vars, op, inp >>

\* the residual of the L2 cost at the positions, and at the positions shifted
EvalResidual ==
    /\ op = "residual" /\ res = << >>
    /\ res' = [model |-> samples_relative_to_origin_no_fuzz(inp.anchors, inp.pos),
               before |-> residual(inp.anchors, inp.pos, motor_pos_samp,
                                   inp.spool_buildup_factor, inp.spool_r),
               after |-> residual(inp.anchors, shifted(inp.pos, inp.shift), motor_pos_samp,
                                  inp.spool_buildup_factor, inp.spool_r),
               cost |-> cost_sq_for_pos_samp(inp.anchors, inp.pos, motor_pos_samp,
                                             inp.spool_buildup_factor, inp.spool_r)]
    /\ UNCHANGED << run_vars, op, inp >>

NextEval ==
    \/ EvalCostx
    \/ EvalConstraints
    \/ EvalBuildup
    \/ EvalResidual

SpecEval == InitEval /\ [][NextEval]_vars

----------------------------------------------------------------------------
(* Properties *)

\* the place of a strategy in the order in which all-strategies mode builds candidates
ProducedAt(name) == CHOOSE j \in 1..Len(StrategyNames) : StrategyNames[j] = name

\* all-strategies mode has ranked its five candidates
Ranked ==
    /\ method = "all"
    /\ Len(cands) = Len(StrategyNames)
    /\ pc \in {"report", "done", "exited"}

\* v lies in the box [l, h], entry by entry
InBox(v, l, h) ==
    /\ Len(v) = Len(l)
    /\ \A j \in 1..Len(v) : RLe(l[j], v[j]) /\ RLe(v[j], h[j])

\* the scale factor of the segment entry j (1-based) of a parameter vector belongs to
SegmentScale(j) ==
    IF j <= params_anch THEN anch_scale
    ELSE IF j <= params_anch + 3 * (u - ux) THEN pos_scale
    ELSE IF j = params_anch + 3 * (u - ux) + 1 THEN sbf_scale
    ELSE sr_scale

\* the anchors a scaled vector decodes to
DecodedAnchors(x) == anchorsvec2matrix(PySlice(scale_back_solution(x), 0, params_anch))

\* C1: in all-strategies mode the winner's cost is less than or equal to the cost of
\* every candidate, and among candidates of that cost it is the one built first.
C1_WinnerIsEarliestMinimum ==
    Ranked =>
        \A j \in 1..Len(cands) :
            /\ RLe(the_cand.cost, cands[j].cost)
            /\ (cands[j].cost = the_cand.cost
                  => ProducedAt(the_cand.name) <= ProducedAt(cands[j].name))

\* C2: with too little data (u + 3k < 9) and no override flag, no solve call is started.
C2_NoSolveOnLackOfData ==
    (u + 3 * ux < params_anch /\ ~debug) => solves = 0

\* C3: every value of the vector a strategy returns lies within its lower and upper
\* bound, both taken in physical units.
C3_ReturnedWithinBounds ==
    pc = "returned" => InBox(ret, scale_back_solution(lb), scale_back_solution(ub))

\* C4: in all-strategies mode a candidate whose cost is NaN is never the winner when
\* some candidate has a cost that is not NaN.
C4_NaNNeverWins ==
    (Ranked /\ \E j \in 1..Len(cands) : ~IsNaN(cands[j].cost)) => ~IsNaN(the_cand.cost)

\* C5: with a method name solve does not know, no solver is ever run and no vector is
\* ever returned; the process ends in solve with status 1 after the message.
C5_UnsupportedAborts ==
    (method \notin Supported /\ method # "all") =>
        /\ runs = 0 /\ raw = << >> /\ ret = << >>
        /\ pc \in {"main", "dispatch", "strategy", "exited"}
        /\ exit_status = IF pc = "exited" THEN 1 ELSE -1
        /\ (pc = "exited" /\ solves > 0 => out[Len(out)] = "not_supported")

C5_Witness ==
    pc = "exited" /\ cur = "NelderMead" /\ solves = 1 /\ exit_status = 1

\* C6: the random-restart loop reads the cancellation flag exactly once before each
\* trial; a signal leaves the trial in progress alone; with the flag set the trial in
\* progress ends as it would have (it completes, unless costx raises), no further
\* trial is started, and the strategy returns a vector of full length.
C6_CancellationBetweenTrials ==
    /\ [](pc = "slsqp_trial" => polls = i + 1 /\ runs = i)
    /\ [](pc = "slsqp_poll" => polls = i /\ runs = i)
    /\ [][(~kill_now /\ kill_now') => UNCHANGED << pc, i, best_cost, best_x, seed, runs, polls >>]_vars
    /\ [][(pc = "slsqp_trial" /\ kill_now) =>
             (pc' = "slsqp_poll" /\ i' = i + 1) \/ (pc' = "raised" /\ costx_raises(u, ux))]_vars
    /\ [][(pc = "slsqp_poll" /\ kill_now) => (pc' = "slsqp_ret" /\ runs' = runs)]_vars
    /\ [][pc = "slsqp_ret" => (pc' = "returned" /\ Len(ret') = ndim /\ runs' = runs)]_vars

C6_Witness ==
    /\ pc = "returned" /\ cur = "SLSQP" /\ kill_now
    /\ i >= 1 /\ i < MaxTrials /\ polls = i + 1 /\ runs = i
    /\ Len(ret) = ndim

\* C7: the random-restart strategy runs at most 30 trials, and when at least one trial
\* has completed the vector it returns is the result of a completed trial whose cost
\* is least among the completed trials.
C7_ReturnsBestCompletedTrial ==
    (pc = "returned" /\ cur = "SLSQP") =>
        /\ runs <= MaxTrials
        /\ (i >= 1 => \E x \in trial_min.xs : ret = scale_back_solution(x))

\* C8 as stated: the direction-set strategy runs its local search more than once.
C8_PowellRunsMoreThanOnce ==
    (pc = "returned" /\ cur = "PowellDirectionalSolver") => runs > 1

\* C8 amended: the direction-set strategy runs its local search exactly once, seeded
\* from the fixed initial guess, and returns the best solution of that run.
C8_PowellRunsOnceFromInitialGuess ==
    (pc = "returned" /\ cur = "PowellDirectionalSolver") =>
        /\ runs = 1
        /\ seed = solve_x_guess(u, ux)
        /\ x_guess = raw

C8_Witness ==
    pc = "returned" /\ cur = "PowellDirectionalSolver" /\ runs = 1 /\ x_guess # solve_x_guess(u, ux)

\* C9: the vector a strategy returns is the solver's scaled result with every entry
\* multiplied once by the scale factor of its segment, also when u = k.
C9_ScaledBackExactlyOnce ==
    pc = "returned" =>
        /\ Len(raw) = ndim
        /\ Len(ret) = ndim
        /\ \A j \in 1..ndim : ret[j] = RMul(raw[j], SegmentScale(j))

C9_Witness ==
    pc = "returned" /\ u = ux /\ ux > 0 /\ Len(ret) = params_anch + params_buildup

\* the signs of C10 for the anchors a
SignsAsClaimed(a) ==
    IF cx_is_positive
    THEN RLt(Zero, a[3][1]) /\ RLt(a[2][1], Zero)
    ELSE RLt(Zero, a[2][1]) /\ RLt(a[3][1], Zero) /\ RLt(Zero, a[4][3])

\* the signs the box keeps when more than two positions are known
SignsWhenRelaxed(a) ==
    IF cx_is_positive
    THEN RLt(a[2][1], Zero)
    ELSE RLt(a[3][1], Zero) /\ RLt(Zero, a[4][3])

\* (the box is built on entry to solve and not changed afterwards, so it is
\* examined where the strategies first see it)
\* C10 as stated: for every u and k, every vector of the box decodes to anchors with
\* B.x > 0, C.x < 0, D.z > 0 (flag unset), or C.x > 0, B.x < 0 (flag set).
C10_SignsForEveryK ==
    pc = "strategy" => \A x \in BoxSamples(lb, ub) : SignsAsClaimed(DecodedAnchors(x))

\* C10 amended: the signs hold for every u and every k <= 2; for k > 2 the sign of the
\* anchor that carries positive x (B, or C with the flag set) is left free, the other
\* signs hold.
C10_SignsUpToTwoKnown ==
    pc = "strategy" =>
        \A x \in BoxSamples(lb, ub) :
            IF ux <= 2 THEN SignsAsClaimed(DecodedAnchors(x))
            ELSE SignsWhenRelaxed(DecodedAnchors(x))

C10_Witness ==
    pc = "strategy" /\ ux = 2 /\ cx_is_positive /\ lb # << >>

\* the bound list l with the entries of B.x and C.x exchanged
Exchanged(l) ==
    [j \in 1..Len(l) |->
        IF j = A_bx + 1 THEN l[A_cx + 1] ELSE IF j = A_cx + 1 THEN l[A_bx + 1] ELSE l[j]]

\* C11: with the anchor-sign flag set, the box is the box of the unset flag with the
\* (lower, upper) pairs of B.x and C.x exchanged and every other entry unchanged.
C11_SwapExchangesPairs ==
    (pc = "strategy" /\ cx_is_positive) =>
        /\ lb = Exchanged(solve_lb(u, ux, FALSE))
        /\ ub = Exchanged(solve_ub(u, ux, FALSE))

C11_Witness ==
    pc = "strategy" /\ cx_is_positive /\ ux = 3 /\ lb[A_cx + 1] = RNeg(l_long)
    /\ ub[A_bx + 1] = RDiv(Rat(-300, 1), anch_scale)

\* tag was printed
Has(tag) == \E j \in 1..Len(out) : out[j] = tag

Candidates ==
    (IF the_cand.name = "unset" THEN {} ELSE {the_cand}) \cup {cands[j] : j \in 1..Len(cands)}

\* computeCost was called on the solution of cand and cand stores what it returned
Recomputed(cand) ==
    \E e \in computed : e.solution = cand.solution /\ e.value = cand.cost

\* C13 as stated: the cost of every candidate, the placeholder of the all-zero vector
\* included, is the value computeCost returned for its vector.
C13_CostAlwaysRecomputed ==
    \A cand \in Candidates : Recomputed(cand)

\* C13 amended: the cost of a candidate whose vector has a non-zero entry is the value
\* computeCost returned for that vector; a candidate of an all-zero vector is never
\* costed and keeps the class default 9999.9.
C13_CostRecomputedUnlessAllZero ==
    \A cand \in Candidates :
        IF any(cand.solution)
        THEN Recomputed(cand)
        ELSE /\ cand.cost = candidate_cost_default
             /\ \A e \in computed : e.solution # cand.solution

C13_Witness ==
    /\ pc = "report" /\ the_cand.name = "SLSQP" /\ the_cand.cost = Rat(2, 1)
    /\ any(the_cand.solution)

\* C14: a candidate decodes its vector of length 9 + 3(u-k) + 5 into u position rows:
\* the k known positions in their order, then the u-k free positions in vector order.
C14_DecodedPositions ==
    \A cand \in Candidates :
        any(cand.solution) =>
            /\ Len(cand.solution) = ndim
            /\ Len(cand.pos) = u
            /\ \A r \in 1..ux : cand.pos[r] = xyz_rows(ux)[r]
            /\ \A r \in 1..(u - ux) :
                   cand.pos[ux + r] = << cand.solution[params_anch + 3 * (r - 1) + 1],
                                         cand.solution[params_anch + 3 * (r - 1) + 2],
                                         cand.solution[params_anch + 3 * (r - 1) + 3] >>

C14_Witness ==
    /\ pc = "report" /\ u = 2 /\ ux = 1 /\ any(the_cand.solution)
    /\ the_cand.pos[2][1] # Zero /\ the_cand.pos[1] = xyz_rows(1)[1]

\* C15: for a positive buildup factor, positive radii and line-length deltas with a
\* non-negative radicand, the motor positions of the deltas convert back to the deltas.
C15_InverseUndoesForward ==
    (op = "buildup" /\ res # << >>) => res.line = inp.line

C15_Witness ==
    /\ op = "buildup" /\ res # << >>
    /\ inp.line[1][1] = Rat(6495, 8) /\ inp.spool_buildup_factor = Rat(1, 125)
    /\ res.motor[1][1] = Rat(401625, 22)

\* C16 as stated: moving every position but the first by the same vector leaves the
\* residual unchanged.
C16_ShiftLeavesResidual ==
    (op = "residual" /\ res # << >>) => res.after = res.before

\* C16 amended: the model delta is taken relative to the coordinate origin, not to a
\* reference sample: it is 0 for a position at the origin, and moving a position p by
\* t changes its residual for anchor a by |a - (p + t)| - |a - p|.
C16_ResidualRelativeToOrigin ==
    (op = "residual" /\ res # << >>) =>
        \A r \in 1..u, a \in 1..4 :
            /\ (inp.pos[r] = origin => res.model[r][a] = Zero)
            /\ RSub(res.after[r][a], res.before[r][a])
                 = RSub(norm(inp.anchors[a], shifted(inp.pos, inp.shift)[r]),
                        norm(inp.anchors[a], inp.pos[r]))

C16_Witness ==
    /\ op = "residual" /\ res # << >>
    /\ inp.pos[1] # origin /\ inp.pos[2] = origin /\ inp.shift # origin
    /\ res.after # res.before

\* C17: for every k the position matrix costx passes to the L2 cost has u rows and is
\* the matrix the candidate evaluator builds from the scaled-back vector.
C17_CostxPassesEvaluatorMatrix ==
    (op = "costx" /\ res # << >>) =>
        /\ ~res.raised
        /\ Len(res.pos) = u
        /\ res.pos = computeCost_pos(scale_back_solution(inp.x), xyz_rows(ux), u)

\* C18: a call of costx leaves every entry of the optimizer's vector unchanged.
C18_CostxLeavesVector ==
    (op = "costx" /\ res # << >>) => res.x = inp.x

\* C19: for every u and k the repair heuristic completes without an index error and
\* leaves the nine anchor entries and the five buildup and spool entries unchanged.
C19_RepairChangesPositionsOnly ==
    (op = "constraints" /\ res # << >>) =>
        /\ ~res.raised
        /\ \A j \in 1..Len(inp.x) :
               (j <= params_anch \/ j > Len(inp.x) - params_buildup) => res.x[j] = inp.x[j]

\* C20: after the repair heuristic, the position of every sample whose A reading is
\* negative has y <= 0 in the repaired vector.
C20_PayingInMeansNegativeY ==
    (op = "constraints" /\ res # << >> /\ ~res.raised) =>
        \A samp \in (ux + 1)..u :
            RLt(motor_pos_samp[samp][A + 1], Zero) =>
                RLe(res.x[params_anch + 3 * (samp - ux - 1) + Y + 1], Zero)

\* C21: after the repair heuristic, the x of every position in the repaired vector is
\* at most the x of anchor B and at least the x of anchor C, flag set or unset.
C21_RepairedXBetweenAnchors ==
    (op = "constraints" /\ res # << >> /\ ~res.raised) =>
        \A r \in 1..(u - ux) :
            /\ RLe(res.x[params_anch + 3 * (r - 1) + X + 1], res.x[A_bx + 1])
            /\ RLe(res.x[A_cx + 1], res.x[params_anch + 3 * (r - 1) + X + 1])

\* C22: every lower and upper bound of an anchor entry, multiplied by the anchor
\* scale, lies within [-4000, 4000], for every u and k.
C22_AnchorBoundsInScaledUnits ==
    pc = "strategy" =>
        \A j \in 1..params_anch :
            /\ RLe(RNeg(l_long), RMul(lb[j], anch_scale)) /\ RLe(RMul(lb[j], anch_scale), l_long)
            /\ RLe(RNeg(l_long), RMul(ub[j], anch_scale)) /\ RLe(RMul(ub[j], anch_scale), l_long)

\* C23: the repair heuristic applied to its own result, with the same motor samples,
\* gives that result again.
C23_RepairIdempotent ==
    (op = "constraints" /\ res # << >> /\ ~res.raised) =>
        constraints(res.x, motor_pos_samp, u) = res

\* C24: for every u >= k >= 0 and both values of the flag, lb, ub and x_guess have
\* length 9 + 3(u-k) + 5, lb[j] <= ub[j] for every entry, and the lower bound of the
\* buildup factor is above zero.
C24_BoundListsWellFormed ==
    pc = "strategy" =>
        /\ Len(lb) = ndim /\ Len(ub) = ndim /\ Len(x_guess) = ndim
        /\ \A j \in 1..Len(lb) : RLe(lb[j], ub[j])
        /\ RLt(Zero, lb[Len(lb) - params_buildup + 1])

C24_Witness ==
    /\ pc = "strategy" /\ u = 3 /\ ux = 2 /\ cx_is_positive
    /\ Len(lb) = params_anch + 3 + params_buildup
    /\ lb[A_cx + 1] = RDiv(Rat(300, 1), anch_scale)

====
